---------------------------- MODULE Spec2Model ----------------------------
(***************************************************************************)
(* Model of the casbun policy adapter (adapter.go and the CasbinPolicy     *)
(* record).  The adapter maps policy tuples onto rows of one table,        *)
(* casbin_policies(id, ptype, v0..v5), that carries a unique index over    *)
(* (ptype, v0..v5).  The table is a bag of rows (the generated id is not   *)
(* modelled: no operation reads or writes it), so that a missing           *)
(* uniqueness check would show as a row held twice.                        *)
(***************************************************************************)
EXTENDS Bags, FiniteSets, Integers, Sequences, TLC

VARIABLES
    schema,   \* the database schema: which of the table and its indexes exist
    table,    \* the rows of casbin_policies, a bag of CasbinPolicy records
    last,     \* the call that has just returned: arguments, result, table before
    codec,    \* the codec call under study: rule type, tuple and encoded record
    conc      \* the transaction in flight beside a concurrent LoadPolicy

vars == <<schema, table, last, codec, conc>>

-----------------------------------------------------------------------------
(* Bounds and input domains *)

\* largest number of rows an insert may leave in the table
MaxRows == 3
\* largest number of rules in one batch argument
MaxBatch == 2
\* largest number of field values of a filtered operation
MaxValues == 2
\* largest tuple length given to the codec
MaxTupleLen == 7

\* number of value slots of a record: V0..V5
NumSlots == 6

\* rule types; the section of a rule type is its first character
PTypes == {"p2", "g"}
Secs == {"p", "g"}

\* strings a tuple of the codec is built from
Strs == {"", "a", "b"}

\* tuples the engine passes to the adapter: a tuple, an extension of it, and
\* a tuple with an empty first value
Rules == {<<"a">>, <<"a", "b">>, <<"", "a">>}

\* field values of a filtered operation are built from these
FilterStrs == {"", "a"}

\* first field index of a filtered operation
FieldIndexes == {0, 1, 5}

SeqsUpTo(S, n) == UNION {[1..k -> S] : k \in 0..n}

Batches == SeqsUpTo(Rules, MaxBatch)

-----------------------------------------------------------------------------
(* Tuple codec: CasbinPolicy *)

\* rule[i] of the Go slice (0-based), "" where the loop does not assign
RuleAt(rule, i) == IF i < Len(rule) /\ i < NumSlots THEN rule[i + 1] ELSE ""

\* newCasbinPolicy whose loop stops one slot early
newCasbinPolicy_FiveSlots(ptype, rule) ==
    [PType |-> ptype,
     V0 |-> RuleAt(rule, 0), V1 |-> RuleAt(rule, 1), V2 |-> RuleAt(rule, 2),
     V3 |-> RuleAt(rule, 3), V4 |-> RuleAt(rule, 4), V5 |-> ""]

newCasbinPolicy(ptype, rule) ==
    [PType |-> ptype,
     V0 |-> RuleAt(rule, 0), V1 |-> RuleAt(rule, 1), V2 |-> RuleAt(rule, 2),
     V3 |-> RuleAt(rule, 3), V4 |-> RuleAt(rule, 4), V5 |-> RuleAt(rule, 5)]

nonEmptyFields(fields) == SelectSeq(fields, LAMBDA f : f # "")

toSlice(c) == nonEmptyFields(<<c.PType, c.V0, c.V1, c.V2, c.V3, c.V4, c.V5>>)

\* filterValues that leaves out the last slot
filterValues_NoV5(c) == nonEmptyFields(<<c.V0, c.V1, c.V2, c.V3, c.V4>>)

filterValues(c) == nonEmptyFields(<<c.V0, c.V1, c.V2, c.V3, c.V4, c.V5>>)

\* the value slots of a record in column order
Slots(c) == <<c.V0, c.V1, c.V2, c.V3, c.V4, c.V5>>

\* column name of slot i: fmt.Sprintf("v%d", i)
ColName(i) == <<"v0", "v1", "v2", "v3", "v4", "v5">>[i + 1]

\* value of a named column of a row
ColValue(c, col) ==
    CASE col = "ptype" -> c.PType
      [] col = "v0" -> c.V0
      [] col = "v1" -> c.V1
      [] col = "v2" -> c.V2
      [] col = "v3" -> c.V3
      [] col = "v4" -> c.V4
      [] col = "v5" -> c.V5

\* filterValuesWithKey that keys the empty slots too
filterValuesWithKey_AllSlots(c) ==
    [col \in {ColName(i) : i \in 0..(NumSlots - 1)} |-> ColValue(c, col)]

filterValuesWithKey(c) ==
    [col \in {ColName(i) : i \in {j \in 0..(NumSlots - 1) : Slots(c)[j + 1] # ""}}
        |-> ColValue(c, col)]

-----------------------------------------------------------------------------
(* The storage engine as the adapter uses it: every statement is atomic,  *)
(* and the unique index rejects a statement that would leave two equal    *)
(* rows.  A statement returns [err, table].  The table and its indexes    *)
(* exist in every state (see Init), so no statement fails for a missing   *)
(* table.                                                                  *)

SeqToBag(s) ==
    [x \in {s[i] : i \in DOMAIN s} |-> Cardinality({i \in DOMAIN s : s[i] = x})]

\* the bag t restricted to the rows in the set rows
Keep(t, rows) == [r \in BagToSet(t) \cap rows |-> t[r]]

\* some row is held more than once
HasDuplicate(t) == \E r \in BagToSet(t) : t[r] > 1

\* an index that is not unique rejects nothing
UniqueViolation_PlainIndex(sch, t) == FALSE

\* the unique index unique_casbin_policy rejects the resulting table
UniqueViolation(sch, t) == sch.uniqueIdx /\ HasDuplicate(t)

Failed(t) == [err |-> TRUE, table |-> t]
Done(t) == [err |-> FALSE, table |-> t]

\* INSERT of the rows of a slice (one statement).  An empty slice gives a
\* statement without rows, which the engine either rejects or runs as a no-op.
InsertRows(sch, t, rows) ==
    IF Len(rows) = 0 THEN {Failed(t), Done(t)}
    ELSE IF UniqueViolation(sch, t (+) SeqToBag(rows)) THEN {Failed(t)}
    ELSE {Done(t (+) SeqToBag(rows))}

\* INSERT of one record
InsertRow(sch, t, row) ==
    IF UniqueViolation(sch, t (+) SetToBag({row})) THEN Failed(t)
    ELSE Done(t (+) SetToBag({row}))

\* DELETE ... WHERE: where is the set of rows the clause selects
DeleteWhere(sch, t, where) == Done(Keep(t, BagToSet(t) \ where))

\* an UPDATE that sets only the non-empty columns of newRow
UpdateWhere_OmitZero(sch, t, where, newRow) ==
    LET merged(r) ==
            [k \in DOMAIN r |-> IF newRow[k] = "" THEN r[k] ELSE newRow[k]]
        rest == Keep(t, BagToSet(t) \ where)
        hit  == BagToSet(t) \cap where
        img  == {merged(r) : r \in hit}
        out  == [r \in BagToSet(rest) \cup img |->
                    (IF r \in BagToSet(rest) THEN rest[r] ELSE 0)
                    + Cardinality({h \in hit : merged(h) = r})]
    IN  IF UniqueViolation(sch, out) THEN Failed(t)
        ELSE Done(out)

\* UPDATE ... SET ptype, v0..v5 = newRow WHERE
UpdateWhere(sch, t, where, newRow) ==
    LET hit  == Keep(t, where)
        rest == Keep(t, BagToSet(t) \ where)
        n    == BagCardinality(hit)
        res  == IF n = 0 THEN t ELSE rest (+) [r \in {newRow} |-> n]
    IN  IF UniqueViolation(sch, res) THEN Failed(t)
        ELSE Done(res)

\* TRUNCATE
Truncate(sch, t) == Done(EmptyBag)

\* the orders in which a SELECT without ORDER BY may return the rows of t
Scans(t) ==
    {s \in [1..BagCardinality(t) -> BagToSet(t)] : SeqToBag(s) = t}

-----------------------------------------------------------------------------
(* Predicates of the adapter's statements *)

\* delete / update: WHERE ptype = ? AND key = value for every keyed value
MatchesKey(r, ptype, values) ==
    /\ r.PType = ptype
    /\ \A col \in DOMAIN values : ColValue(r, col) = values[col]

\* the loop body comparing an empty field value with the column
FilterCond_EmptyEquals(r, n, fieldIndex, fieldValues) ==
    IF fieldIndex > n \/ n >= fieldIndex + Len(fieldValues)
    THEN TRUE
    ELSE ColValue(r, ColName(n)) = fieldValues[n - fieldIndex + 1]

\* deleteFilteredPolicy / UpdateFilteredPoliciesCtx: the loop over n = 0..5
FilterCond(r, n, fieldIndex, fieldValues) ==
    IF fieldIndex > n \/ n >= fieldIndex + Len(fieldValues)
    THEN TRUE
    ELSE LET value == fieldValues[n - fieldIndex + 1]
         IN  IF value = "" THEN TRUE     \* col LIKE '%'
             ELSE ColValue(r, ColName(n)) = value

MatchesFilter(r, ptype, fieldIndex, fieldValues) ==
    /\ r.PType = ptype
    /\ \A n \in 0..5 : FilterCond(r, n, fieldIndex, fieldValues)

-----------------------------------------------------------------------------
(* The engine's model, as far as the adapter calls it: model[sec][ptype]  *)
(* is an assertion with its token count and its list of rules.            *)

\* sec := pType[:1]
Sec(ptype) == CASE ptype = "p2" -> "p" [] ptype = "g" -> "g"

\* token count of each rule type's definition in the engine's model
Tokens == [p2 |-> 1, g |-> 1]

\* a model whose assertions hold the rules of pol[ptype]
ModelOf(pol) ==
    [sec \in Secs |->
        [ptype \in {q \in PTypes : Sec(q) = sec} |->
            [Tokens |-> Tokens[ptype], Policy |-> pol[ptype]]]]

\* the models a caller passes in: at most MaxBatch rules in all
Models ==
    {ModelOf(pol) : pol \in
        {f \in [PTypes -> Batches] :
            Len(f["p2"]) + Len(f["g"]) <= MaxBatch}}

NewModel == ModelOf([ptype \in PTypes |-> <<>>])

InSeq(x, s) == \E i \in DOMAIN s : s[i] = x

\* model.HasPolicyEx: [err, ok]
HasPolicyEx(m, sec, ptype, rule) ==
    IF sec \notin DOMAIN m \/ ptype \notin DOMAIN m[sec]
    THEN [err |-> TRUE, ok |-> FALSE]
    ELSE LET assertion == m[sec][ptype]
             badSize ==
                CASE sec = "p" -> Len(rule) # assertion.Tokens
                  [] sec = "g" -> Len(rule) < assertion.Tokens
                  [] OTHER -> FALSE
         IN  IF badSize THEN [err |-> TRUE, ok |-> FALSE]
             ELSE [err |-> FALSE, ok |-> InSeq(rule, assertion.Policy)]

\* model.AddPolicy: appends the rule to the assertion's list
ModelAddPolicy(m, sec, ptype, rule) ==
    [m EXCEPT ![sec][ptype].Policy = Append(@, rule)]

\* loadPolicyRecord that adds the tuple whether or not the model holds it
loadPolicyRecord_AlwaysAdd(policy, m) ==
    LET pType == policy.PType
        sec   == Sec(pType)
        has   == HasPolicyEx(m, sec, pType, filterValues(policy))
    IN  IF has.err THEN [err |-> TRUE, model |-> m]
        ELSE [err |-> FALSE,
              model |-> ModelAddPolicy(m, sec, pType, filterValues(policy))]

\* loadPolicyRecord: [err, model]
loadPolicyRecord(policy, m) ==
    LET pType == policy.PType
        sec   == Sec(pType)
        has   == HasPolicyEx(m, sec, pType, filterValues(policy))
    IN  IF has.err THEN [err |-> TRUE, model |-> m]
        ELSE IF has.ok THEN [err |-> FALSE, model |-> m]
        ELSE [err |-> FALSE,
              model |-> ModelAddPolicy(m, sec, pType, filterValues(policy))]

\* the loop of LoadPolicyCtx over the selected rows, from row i on
RECURSIVE loadLoop(_, _, _)
loadLoop(policies, i, m) ==
    IF i > Len(policies) THEN [err |-> FALSE, model |-> m]
    ELSE LET r == loadPolicyRecord(policies[i], m)
         IN  IF r.err THEN r ELSE loadLoop(policies, i + 1, r.model)

-----------------------------------------------------------------------------
(* The adapter's operations.  Each gives the set of outcomes               *)
(* [res, table, out, model] of one call on table t: res is "ok", "err" or  *)
(* "panic", out the returned tuples, model the engine's model after the    *)
(* call.  fault = k makes the k-th storage call of the handler return a    *)
(* transport error (cancelled context, lost connection) without effect;    *)
(* fault = 0 is a call without such an error.                              *)

Outcome(res, t, out, m) == [res |-> res, table |-> t, out |-> out, model |-> m]

\* the record slice built from a rule slice
Encode(ptype, rules) == [i \in DOMAIN rules |-> newCasbinPolicy(ptype, rules[i])]

\* result of the k-th storage call: the statement's own, or the fault
Exec(k, fault, t, stmt) == IF fault = k THEN Failed(t) ELSE stmt

ResOf(r) == IF r.err THEN "err" ELSE "ok"

\* the rules of every assertion of a section, in the order of the map range
RECURSIVE SectionPolicies(_, _)
SectionPolicies(section, keys) ==
    IF keys = {} THEN <<>>
    ELSE LET ptype == CHOOSE q \in keys : TRUE
         IN  Encode(ptype, section[ptype].Policy)
                \o SectionPolicies(section, keys \ {ptype})

\* refreshTable that leaves the rows in place
refreshTable_NoTruncate(sch, t, fault) == Exec(1, fault, t, Done(t))

refreshTable(sch, t, fault) == Exec(1, fault, t, Truncate(sch, t))

\* savePolicyRecords with the truncate and the insert in one transaction
savePolicyRecords_InTx(sch, t, policies, fault) ==
    LET cleared == refreshTable(sch, t, fault)
    IN  IF cleared.err THEN {Outcome("err", t, <<>>, NewModel)}
        ELSE {Outcome(ResOf(r), IF r.err THEN t ELSE r.table, <<>>, NewModel) :
                r \in IF fault = 2 THEN {Failed(cleared.table)}
                      ELSE InsertRows(sch, cleared.table, policies)}

savePolicyRecords(sch, t, policies, fault) ==
    LET cleared == refreshTable(sch, t, fault)
    IN  IF cleared.err THEN {Outcome("err", t, <<>>, NewModel)}
        ELSE {Outcome(ResOf(r), r.table, <<>>, NewModel) :
                r \in IF fault = 2 THEN {Failed(cleared.table)}
                      ELSE InsertRows(sch, cleared.table, policies)}

SavePolicyCtx(sch, t, m, fault) ==
    LET policies == SectionPolicies(m["p"], DOMAIN m["p"])
                        \o SectionPolicies(m["g"], DOMAIN m["g"])
    IN  savePolicyRecords(sch, t, policies, fault)

LoadPolicyCtx(sch, t, m, fault) ==
    IF fault = 1 THEN {Outcome("err", t, <<>>, m)}
    ELSE {LET r == loadLoop(policies, 1, m)
          IN  Outcome(ResOf(r), t, <<>>, r.model) : policies \in Scans(t)}

AddPolicyCtx(sch, t, ptype, rule, fault) ==
    LET newPolicy == newCasbinPolicy(ptype, rule)
        r == Exec(1, fault, t, InsertRow(sch, t, newPolicy))
    IN  {Outcome(ResOf(r), r.table, <<>>, NewModel)}

\* AddPolicies as one INSERT per rule: the rows before the first rejected one
\* stay in the table
AddPoliciesCtx_OneByOne(sch, t, ptype, rules, fault) ==
    LET policies == Encode(ptype, rules)
        fits(k) == ~UniqueViolation(sch, t (+) SeqToBag(SubSeq(policies, 1, k)))
        n == CHOOSE k \in 0..Len(policies) :
                /\ fits(k)
                /\ k < Len(policies) => ~fits(k + 1)
    IN  IF fault = 1 THEN {Outcome("err", t, <<>>, NewModel)}
        ELSE {Outcome(IF n = Len(policies) THEN "ok" ELSE "err",
                      t (+) SeqToBag(SubSeq(policies, 1, n)), <<>>, NewModel)}

AddPoliciesCtx(sch, t, ptype, rules, fault) ==
    LET policies == Encode(ptype, rules)
    IN  {Outcome(ResOf(r), r.table, <<>>, NewModel) :
            r \in IF fault = 1 THEN {Failed(t)} ELSE InsertRows(sch, t, policies)}

\* deleteRecord / deleteRecordInTx with delete: one DELETE statement
deleteRecord(sch, t, existingPolicy) ==
    LET values == filterValuesWithKey(existingPolicy)
    IN  DeleteWhere(sch, t,
            {r \in BagToSet(t) : MatchesKey(r, existingPolicy.PType, values)})

RemovePolicyCtx(sch, t, ptype, rule, fault) ==
    LET exisingPolicy == newCasbinPolicy(ptype, rule)
        r == Exec(1, fault, t, deleteRecord(sch, t, exisingPolicy))
    IN  {Outcome(ResOf(r), r.table, <<>>, NewModel)}

\* the loop of RemovePoliciesCtx inside the transaction, from rule i on;
\* work is the table as the transaction sees it
RECURSIVE removeLoop(_, _, _, _, _, _)
removeLoop(sch, work, ptype, rules, i, fault) ==
    IF i > Len(rules) THEN Done(work)
    ELSE LET exisingPolicy == newCasbinPolicy(ptype, rules[i])
             r == Exec(i, fault, work, deleteRecord(sch, work, exisingPolicy))
         IN  IF r.err THEN r
             ELSE removeLoop(sch, r.table, ptype, rules, i + 1, fault)

\* RunInTx that leaves the work of a failed transaction in the table
RunInTx_NoRollback(t, r, commitFails) ==
    IF r.err \/ commitFails THEN Outcome("err", r.table, <<>>, NewModel)
    ELSE Outcome("ok", r.table, <<>>, NewModel)

\* RunInTx: commit what fn did, or roll back to t when fn or the commit fails
RunInTx(t, r, commitFails) ==
    IF r.err \/ commitFails THEN Outcome("err", t, <<>>, NewModel)
    ELSE Outcome("ok", r.table, <<>>, NewModel)

RemovePoliciesCtx(sch, t, ptype, rules, fault) ==
    {RunInTx(t, removeLoop(sch, t, ptype, rules, 1, fault),
             fault = Len(rules) + 1)}

deleteFilteredPolicy(sch, t, ptype, fieldIndex, fieldValues, fault) ==
    LET r == Exec(1, fault, t,
                  DeleteWhere(sch, t,
                      {x \in BagToSet(t) :
                          MatchesFilter(x, ptype, fieldIndex, fieldValues)}))
    IN  {Outcome(ResOf(r), r.table, <<>>, NewModel)}

RemoveFilteredPolicyCtx(sch, t, ptype, fieldIndex, fieldValues, fault) ==
    deleteFilteredPolicy(sch, t, ptype, fieldIndex, fieldValues, fault)

\* updateRecord / updateRecordInTx with update: one UPDATE statement
updateRecord(sch, t, oldPolicy, newPolicy) ==
    LET values == filterValuesWithKey(oldPolicy)
    IN  UpdateWhere(sch, t,
            {r \in BagToSet(t) : MatchesKey(r, oldPolicy.PType, values)},
            newPolicy)

UpdatePolicyCtx(sch, t, ptype, oldRule, newRule, fault) ==
    LET oldPolicy == newCasbinPolicy(ptype, oldRule)
        newPolicy == newCasbinPolicy(ptype, newRule)
        r == Exec(1, fault, t, updateRecord(sch, t, oldPolicy, newPolicy))
    IN  {Outcome(ResOf(r), r.table, <<>>, NewModel)}

\* the loop of UpdatePoliciesCtx inside the transaction, from pair i on;
\* newPolicies[i] past the end of the slice panics
RECURSIVE updateLoop(_, _, _, _, _, _)
updateLoop(sch, work, oldPolicies, newPolicies, i, fault) ==
    IF i > Len(oldPolicies) THEN [err |-> FALSE, panic |-> FALSE, table |-> work]
    ELSE IF i > Len(newPolicies)
         THEN [err |-> FALSE, panic |-> TRUE, table |-> work]
    ELSE LET r == Exec(i, fault, work,
                       updateRecord(sch, work, oldPolicies[i], newPolicies[i]))
         IN  IF r.err THEN [err |-> TRUE, panic |-> FALSE, table |-> r.table]
             ELSE updateLoop(sch, r.table, oldPolicies, newPolicies, i + 1, fault)

UpdatePoliciesCtx(sch, t, ptype, oldRules, newRules, fault) ==
    LET oldPolicies == Encode(ptype, oldRules)
        newPolicies == Encode(ptype, newRules)
        r == updateLoop(sch, t, oldPolicies, newPolicies, 1, fault)
    IN  IF r.panic THEN {Outcome("panic", t, <<>>, NewModel)}
        ELSE {RunInTx(t, r, fault = Len(oldRules) + 1)}

\* a rollback that keeps what the transaction did
Rollback_Keep(t, work) == work

\* tx.Rollback(): the table is again what it was when the transaction began
Rollback(t, work) == t

\* the returned tuples without their rule type
Captured_FilterValues(oldPolicies) ==
    [i \in DOMAIN oldPolicies |-> filterValues(oldPolicies[i])]

\* the tuples returned for the selected rows
Captured(oldPolicies) == [i \in DOMAIN oldPolicies |-> toSlice(oldPolicies[i])]

\* storage calls: 1 select, 2 delete, 3 insert, 4 commit
UpdateFilteredPoliciesCtx(sch, t, ptype, newRules, fieldIndex, fieldValues, fault) ==
    LET newPolicies == Encode(ptype, newRules)
        hit == {r \in BagToSet(t) : MatchesFilter(r, ptype, fieldIndex, fieldValues)}
        deleted == Exec(2, fault, t, DeleteWhere(sch, t, hit))
    IN  IF fault = 1 THEN {Outcome("err", Rollback(t, t), <<>>, NewModel)}
        ELSE IF deleted.err
        THEN {Outcome("err", Rollback(t, deleted.table), <<>>, NewModel)}
        ELSE UNION {
               {IF ins.err
                THEN Outcome("err", Rollback(t, ins.table), <<>>, NewModel)
                ELSE LET out == Captured(oldPolicies)
                     IN  IF fault = 4 THEN Outcome("err", t, out, NewModel)
                         ELSE Outcome("ok", ins.table, out, NewModel) :
                   ins \in IF fault = 3 THEN {Failed(deleted.table)}
                           ELSE InsertRows(sch, deleted.table, newPolicies)} :
               oldPolicies \in Scans(Keep(t, hit))}

\* createTable: CREATE TABLE IF NOT EXISTS, then the two CREATE INDEX
\* statements, in one transaction; [err, schema]
createTable(sch) ==
    IF sch.uniqueIdx \/ sch.ptypeIdx THEN [err |-> TRUE, schema |-> sch]
    ELSE [err |-> FALSE,
          schema |-> [table |-> TRUE, uniqueIdx |-> TRUE, ptypeIdx |-> TRUE]]

-----------------------------------------------------------------------------
(* State machine: calls of the adapter on one database.  A call runs its  *)
(* whole handler in one step and leaves its arguments and result in last; *)
(* Return is the caller taking the result, after which the next call can  *)
(* be made.                                                                *)

NoCall ==
    [op |-> "none", ptype |-> "g", rules |-> <<>>, newRules |-> <<>>,
     fieldIndex |-> 0, values |-> <<>>, model |-> NewModel, fault |-> 0,
     pre |-> EmptyBag, res |-> "ok", out |-> <<>>, outModel |-> NewModel,
     again |-> FALSE, notCreateTables |-> FALSE]

NoCodec ==
    [step |-> "none", ptype |-> "g", rule |-> <<>>,
     policy |-> newCasbinPolicy("g", <<>>), values |-> <<>>]

\* no transaction in flight
NoTx ==
    [op |-> "none", ptype |-> "g", rules |-> <<>>, newRules |-> <<>>,
     fieldIndex |-> 0, values |-> <<>>, pc |-> 0, state |-> "idle",
     begin |-> EmptyBag, work |-> EmptyBag, loaded |-> FALSE,
     seen |-> EmptyBag, seenWork |-> EmptyBag]

Idle == last.op = "none"

\* the call op with arguments args returns outcome o
Returns(op, args, o) ==
    /\ BagCardinality(o.table) <= MaxRows
    /\ table' = o.table
    /\ last' = [k \in DOMAIN NoCall |->
                  CASE k = "op" -> op
                    [] k = "pre" -> table
                    [] k = "res" -> o.res
                    [] k = "out" -> o.out
                    [] k = "outModel" -> o.model
                    [] k \in DOMAIN args -> args[k]
                    [] OTHER -> NoCall[k]]
    /\ UNCHANGED <<schema, codec, conc>>

\* the table and both indexes exist: the state after a first NewAdapter
Init ==
    /\ schema = [table |-> TRUE, uniqueIdx |-> TRUE, ptypeIdx |-> TRUE]
    /\ table = EmptyBag
    /\ last = NoCall
    /\ codec = NoCodec
    /\ conc = NoTx

\* NewAdapter on the same database, with or without DisableAutoCreateTable
NewAdapter ==
    /\ Idle
    /\ \E notCreateTables \in BOOLEAN :
         LET r == IF notCreateTables THEN [err |-> FALSE, schema |-> schema]
                  ELSE createTable(schema)
         IN  /\ schema' = r.schema
             /\ last' = [NoCall EXCEPT !.op = "NewAdapter", !.pre = table,
                                       !.res = ResOf(r),
                                       !.notCreateTables = notCreateTables]
             /\ UNCHANGED <<table, codec, conc>>

LoadPolicy ==
    \/ /\ Idle
       /\ \E m \in Models, fault \in 0..1 :
            \E o \in LoadPolicyCtx(schema, table, m, fault) :
               Returns("LoadPolicy", [model |-> m, fault |-> fault], o)
    \/ \* the model of a load that succeeded is loaded once more
       /\ last.op = "LoadPolicy" /\ last.res = "ok" /\ ~last.again
       /\ \E o \in LoadPolicyCtx(schema, table, last.outModel, 0) :
            Returns("LoadPolicy",
                    [model |-> last.outModel, fault |-> 0, again |-> TRUE], o)

SavePolicy ==
    /\ Idle
    /\ \E m \in Models, fault \in 0..2 :
         \E o \in SavePolicyCtx(schema, table, m, fault) :
            Returns("SavePolicy", [model |-> m, fault |-> fault], o)

AddPolicy ==
    /\ Idle
    /\ \E ptype \in PTypes, rule \in Rules, fault \in 0..1 :
         \E o \in AddPolicyCtx(schema, table, ptype, rule, fault) :
            Returns("AddPolicy",
                    [ptype |-> ptype, rules |-> <<rule>>, fault |-> fault], o)

AddPolicies ==
    /\ Idle
    /\ \E ptype \in PTypes, rules \in Batches, fault \in 0..1 :
         \E o \in AddPoliciesCtx(schema, table, ptype, rules, fault) :
            Returns("AddPolicies",
                    [ptype |-> ptype, rules |-> rules, fault |-> fault], o)

RemovePolicy ==
    /\ Idle
    /\ \E ptype \in PTypes, rule \in Rules, fault \in 0..1 :
         \E o \in RemovePolicyCtx(schema, table, ptype, rule, fault) :
            Returns("RemovePolicy",
                    [ptype |-> ptype, rules |-> <<rule>>, fault |-> fault], o)

RemovePolicies ==
    /\ Idle
    /\ \E ptype \in PTypes, rules \in Batches :
         \E fault \in 0..(Len(rules) + 1) :
            \E o \in RemovePoliciesCtx(schema, table, ptype, rules, fault) :
               Returns("RemovePolicies",
                       [ptype |-> ptype, rules |-> rules, fault |-> fault], o)

RemoveFilteredPolicy ==
    /\ Idle
    /\ \E ptype \in PTypes, fieldIndex \in FieldIndexes,
          fieldValues \in SeqsUpTo(FilterStrs, MaxValues), fault \in 0..1 :
         \E o \in RemoveFilteredPolicyCtx(schema, table, ptype, fieldIndex,
                                          fieldValues, fault) :
            Returns("RemoveFilteredPolicy",
                    [ptype |-> ptype, fieldIndex |-> fieldIndex,
                     values |-> fieldValues, fault |-> fault], o)

UpdatePolicy ==
    /\ Idle
    /\ \E ptype \in PTypes, oldRule \in Rules, newRule \in Rules, fault \in 0..1 :
         \E o \in UpdatePolicyCtx(schema, table, ptype, oldRule, newRule, fault) :
            Returns("UpdatePolicy",
                    [ptype |-> ptype, rules |-> <<oldRule>>,
                     newRules |-> <<newRule>>, fault |-> fault], o)

UpdatePolicies ==
    /\ Idle
    /\ \E ptype \in PTypes, oldRules \in Batches, newRules \in Batches :
         \E fault \in 0..(Len(oldRules) + 1) :
            \E o \in UpdatePoliciesCtx(schema, table, ptype, oldRules,
                                       newRules, fault) :
               Returns("UpdatePolicies",
                       [ptype |-> ptype, rules |-> oldRules,
                        newRules |-> newRules, fault |-> fault], o)

UpdateFilteredPolicies ==
    /\ Idle
    /\ \E ptype \in PTypes, newRules \in Batches, fieldIndex \in FieldIndexes,
          fieldValues \in SeqsUpTo(FilterStrs, MaxValues), fault \in 0..4 :
         \E o \in UpdateFilteredPoliciesCtx(schema, table, ptype, newRules,
                                            fieldIndex, fieldValues, fault) :
            Returns("UpdateFilteredPolicies",
                    [ptype |-> ptype, newRules |-> newRules,
                     fieldIndex |-> fieldIndex, values |-> fieldValues,
                     fault |-> fault], o)

\* the caller takes the result of the call
Return ==
    /\ ~Idle
    /\ last' = NoCall
    /\ UNCHANGED <<schema, table, codec, conc>>

Next ==
    \/ NewAdapter
    \/ LoadPolicy
    \/ SavePolicy
    \/ AddPolicy
    \/ AddPolicies
    \/ RemovePolicy
    \/ RemovePolicies
    \/ RemoveFilteredPolicy
    \/ UpdatePolicy
    \/ UpdatePolicies
    \/ UpdateFilteredPolicies
    \/ Return

Spec == Init /\ [][Next]_vars

-----------------------------------------------------------------------------
(* The codec on its own: a rule type and a tuple are encoded, and the     *)
(* record is decoded to its filter values.                                 *)

Tuples == SeqsUpTo(Strs, MaxTupleLen)

CodecInit ==
    /\ schema = [table |-> TRUE, uniqueIdx |-> TRUE, ptypeIdx |-> TRUE]
    /\ table = EmptyBag
    /\ last = NoCall
    /\ conc = NoTx
    /\ \E ptype \in PTypes, rule \in Tuples :
         codec = [NoCodec EXCEPT !.step = "input", !.ptype = ptype, !.rule = rule]

CodecEncode ==
    /\ codec.step = "input"
    /\ codec' = [codec EXCEPT !.step = "encoded",
                              !.policy = newCasbinPolicy(codec.ptype, codec.rule)]
    /\ UNCHANGED <<schema, table, last, conc>>

CodecDecode ==
    /\ codec.step = "encoded"
    /\ codec' = [codec EXCEPT !.step = "decoded",
                              !.values = filterValues(codec.policy)]
    /\ UNCHANGED <<schema, table, last, conc>>

CodecNext == CodecEncode \/ CodecDecode

CodecSpec == CodecInit /\ [][CodecNext]_vars

-----------------------------------------------------------------------------
(* One transactional call in flight, statement by statement, beside a     *)
(* caller of LoadPolicy on the same database.  table holds the committed  *)
(* rows, which a statement on a.db reads; conc.work holds the rows as the *)
(* statements on tx see them; conc.begin holds the rows at BeginTx.       *)

\* a statement run on a.db although a transaction is open
InTx_OnDb(t, r) == [err |-> r.err, table |-> r.table, work |-> r.table]

\* a statement built from tx (tx.NewDelete, tx.NewUpdate, tx.NewInsert) with
\* result r on the rows of the transaction: the committed rows t stay
InTx(t, r) == [err |-> r.err, table |-> t, work |-> r.table]

deleteRecordInTx(sch, t, work, existingPolicy) ==
    InTx(t, deleteRecord(sch, work, existingPolicy))

updateRecordInTx(sch, t, work, oldPolicy, newPolicy) ==
    InTx(t, updateRecord(sch, work, oldPolicy, newPolicy))

\* BeginTx for the call op with arguments args
BeginTx(op, args) ==
    /\ conc' = [k \in DOMAIN NoTx |->
                  CASE k = "op" -> op
                    [] k = "pc" -> 1
                    [] k = "state" -> "active"
                    [] k \in {"begin", "work"} -> table
                    [] k \in DOMAIN args -> args[k]
                    [] OTHER -> NoTx[k]]
    /\ UNCHANGED <<schema, table, last, codec>>

\* statement number conc.pc of the transaction has returned r
Stepped(r) ==
    /\ BagCardinality(r.work) <= MaxRows
    /\ table' = r.table
    /\ conc' = IF r.err
               THEN [conc EXCEPT !.state = "rolledback",
                                 !.work = Rollback(conc.begin, conc.work)]
               ELSE [conc EXCEPT !.pc = conc.pc + 1, !.work = r.work]
    /\ UNCHANGED <<schema, last, codec>>

RemovePoliciesBegin ==
    /\ conc.state = "idle"
    /\ \E ptype \in PTypes, rules \in Batches :
          BeginTx("RemovePolicies", [ptype |-> ptype, rules |-> rules])

RemovePoliciesStep ==
    /\ conc.op = "RemovePolicies" /\ conc.state = "active"
    /\ conc.pc <= Len(conc.rules)
    /\ Stepped(deleteRecordInTx(schema, table, conc.work,
                   newCasbinPolicy(conc.ptype, conc.rules[conc.pc])))

\* the tuples a concurrent UpdatePolicies writes
ConcNewRules == {<<"a">>, <<"a", "b">>}

UpdatePoliciesBegin ==
    /\ conc.state = "idle"
    /\ \E ptype \in PTypes, oldRules \in Batches :
          \E newRules \in [DOMAIN oldRules -> ConcNewRules] :
             BeginTx("UpdatePolicies",
                     [ptype |-> ptype, rules |-> oldRules,
                      newRules |-> newRules])

UpdatePoliciesStep ==
    /\ conc.op = "UpdatePolicies" /\ conc.state = "active"
    /\ conc.pc <= Len(conc.rules)
    /\ Stepped(updateRecordInTx(schema, table, conc.work,
                   newCasbinPolicy(conc.ptype, conc.rules[conc.pc]),
                   newCasbinPolicy(conc.ptype, conc.newRules[conc.pc])))

\* the filters of a concurrent UpdateFilteredPolicies: every row of the
\* rule type, the rows with v0 = a, the rows with v1 = a
ConcFilters ==
    {[fieldIndex |-> 0, values |-> <<>>],
     [fieldIndex |-> 0, values |-> <<"a">>],
     [fieldIndex |-> 0, values |-> <<"", "a">>]}

UpdateFilteredPoliciesBegin ==
    /\ conc.state = "idle"
    /\ \E ptype \in PTypes, newRules \in Batches, f \in ConcFilters :
          BeginTx("UpdateFilteredPolicies",
                  [ptype |-> ptype, newRules |-> newRules,
                   fieldIndex |-> f.fieldIndex, values |-> f.values])

\* the rows of the transaction that the filter of the call selects
ConcHit ==
    {r \in BagToSet(conc.work) :
        MatchesFilter(r, conc.ptype, conc.fieldIndex, conc.values)}

\* selectQuery.Scan: reads the rows of the transaction, writes nothing
UpdateFilteredPoliciesSelect ==
    /\ conc.op = "UpdateFilteredPolicies" /\ conc.state = "active"
    /\ conc.pc = 1
    /\ Stepped(InTx(table, Done(conc.work)))

UpdateFilteredPoliciesDelete ==
    /\ conc.op = "UpdateFilteredPolicies" /\ conc.state = "active"
    /\ conc.pc = 2
    /\ Stepped(InTx(table, DeleteWhere(schema, conc.work, ConcHit)))

UpdateFilteredPoliciesInsert ==
    /\ conc.op = "UpdateFilteredPolicies" /\ conc.state = "active"
    /\ conc.pc = 3
    /\ \E ins \in InsertRows(schema, conc.work,
                             Encode(conc.ptype, conc.newRules)) :
          Stepped(InTx(table, ins))

\* the number of statements the call runs before it commits
Statements ==
    IF conc.op = "UpdateFilteredPolicies" THEN 3 ELSE Len(conc.rules)

\* tx.Commit(): the rows of the transaction become the committed rows
Commit ==
    /\ conc.state = "active"
    /\ conc.pc > Statements
    /\ table' = conc.work
    /\ conc' = [conc EXCEPT !.state = "committed"]
    /\ UNCHANGED <<schema, last, codec>>

\* LoadPolicyCtx of another caller: its one SELECT on a.db reads the
\* committed rows
ConcLoadPolicy ==
    /\ conc.state # "idle"
    /\ ~conc.loaded
    /\ \E policies \in Scans(table) :
          conc' = [conc EXCEPT !.loaded = TRUE,
                               !.seen = SeqToBag(policies),
                               !.seenWork = conc.work]
    /\ UNCHANGED <<schema, table, last, codec>>

\* the transactional call returns to its caller
ConcReturn ==
    /\ conc.state \in {"committed", "rolledback"}
    /\ conc' = NoTx
    /\ UNCHANGED <<schema, table, last, codec>>

ConcNext ==
    \/ RemovePoliciesBegin
    \/ RemovePoliciesStep
    \/ UpdatePoliciesBegin
    \/ UpdatePoliciesStep
    \/ UpdateFilteredPoliciesBegin
    \/ UpdateFilteredPoliciesSelect
    \/ UpdateFilteredPoliciesDelete
    \/ UpdateFilteredPoliciesInsert
    \/ Commit
    \/ ConcLoadPolicy
    \/ ConcReturn

ConcSpec == Init /\ [][ConcNext]_vars

-----------------------------------------------------------------------------
(* Properties of the adapter's operations *)

\* the record of a rule, slot by slot
RowOf(ptype, rule) ==
    [PType |-> ptype,
     V0 |-> IF Len(rule) >= 1 THEN rule[1] ELSE "",
     V1 |-> IF Len(rule) >= 2 THEN rule[2] ELSE "",
     V2 |-> IF Len(rule) >= 3 THEN rule[3] ELSE "",
     V3 |-> IF Len(rule) >= 4 THEN rule[4] ELSE "",
     V4 |-> IF Len(rule) >= 5 THEN rule[5] ELSE "",
     V5 |-> IF Len(rule) >= 6 THEN rule[6] ELSE ""]

\* the bag of the records of a rule slice
RowsOf(ptype, rules) == SeqToBag([i \in DOMAIN rules |-> RowOf(ptype, rules[i])])

\* the records of all rules of a model's policy and grouping families
ModelRows(m) ==
    {RowOf(ptype, m[sec][ptype].Policy[i]) :
        <<sec, ptype, i>> \in
            {x \in Secs \X PTypes \X (1..MaxBatch) :
                /\ x[2] \in DOMAIN m[x[1]]
                /\ x[3] \in DOMAIN m[x[1]][x[2]].Policy}}

\* C1: a SavePolicy that returns without error leaves the table holding
\* exactly the records of the rules of the model passed in, each once, whatever
\* the table held before.
C1_SaveReplacesTable ==
    (last.op = "SavePolicy" /\ last.res = "ok")
        => table = SetToBag(ModelRows(last.model))

C1_Witness ==
    /\ last.op = "SavePolicy" /\ last.res = "ok"
    /\ table # EmptyBag
    /\ \E r \in BagToSet(last.pre) : r \notin BagToSet(table)

\* C2: no two rows of the table are equal in (ptype, v0..v5), and an AddPolicy
\* of a rule whose record is already in the table returns an error and leaves
\* the table unchanged.
C2_UniqueRows ==
    /\ \A r \in BagToSet(table) : CopiesIn(r, table) = 1
    /\ (/\ last.op = "AddPolicy"
        /\ BagIn(RowOf(last.ptype, last.rules[1]), last.pre))
           => (last.res = "err" /\ table = last.pre)

C2_Witness ==
    /\ last.op = "AddPolicy" /\ last.fault = 0
    /\ BagIn(RowOf(last.ptype, last.rules[1]), last.pre)
    /\ BagCardinality(last.pre) < MaxRows

\* C3: AddPolicies is all-or-nothing: when it returns an error the table is
\* as before the call, when it succeeds the table is the previous one plus the
\* record of every rule of the batch, and a batch with a rule that duplicates
\* a row or another rule of the batch returns an error.
C3_AddPoliciesAtomic ==
    last.op = "AddPolicies" =>
        /\ last.res = "err" => table = last.pre
        /\ last.res = "ok" => table = last.pre (+) RowsOf(last.ptype, last.rules)
        /\ (\E r \in BagToSet(last.pre (+) RowsOf(last.ptype, last.rules)) :
               CopiesIn(r, last.pre (+) RowsOf(last.ptype, last.rules)) > 1)
             => last.res = "err"

\* the second rule of the batch is the one that fails
C3_Witness ==
    /\ last.op = "AddPolicies" /\ last.res = "err" /\ last.fault = 0
    /\ Len(last.rules) = 2
    /\ ~BagIn(RowOf(last.ptype, last.rules[1]), last.pre)
    /\ BagIn(RowOf(last.ptype, last.rules[2]), last.pre)
    /\ BagCardinality(last.pre) < MaxRows

\* C4: RemovePolicies and UpdatePolicies that fail at a statement leave the
\* table as it was before the call: the statements already run are rolled back.
C4_BatchRollsBack ==
    (last.op \in {"RemovePolicies", "UpdatePolicies"} /\ last.res # "ok")
        => table = last.pre

\* the first update of the batch changes a row, the second violates the index
C4_Witness ==
    /\ last.op = "UpdatePolicies" /\ last.res = "err" /\ last.fault = 0
    /\ Len(last.rules) = 2 /\ Len(last.newRules) = 2
    /\ LET first == updateRecord(schema, last.pre,
                                 RowOf(last.ptype, last.rules[1]),
                                 RowOf(last.ptype, last.newRules[1]))
       IN  ~first.err /\ first.table # last.pre

\* row r is selected by a filter: its rule type is ptype and every slot n
\* that the field values cover with a non-empty value holds that value
Selected(r, ptype, fieldIndex, values) ==
    /\ r.PType = ptype
    /\ \A n \in 0..5 :
          (/\ fieldIndex <= n
           /\ n < fieldIndex + Len(values)
           /\ values[n - fieldIndex + 1] # "")
             => <<r.V0, r.V1, r.V2, r.V3, r.V4, r.V5>>[n + 1]
                    = values[n - fieldIndex + 1]

\* the rows of the table before the call that the filter of the call selects,
\* and the others
PreSelected ==
    Keep(last.pre,
         {r \in BagToSet(last.pre) :
             Selected(r, last.ptype, last.fieldIndex, last.values)})

PreNotSelected ==
    Keep(last.pre,
         {r \in BagToSet(last.pre) :
             ~Selected(r, last.ptype, last.fieldIndex, last.values)})

\* the rule type followed by the non-empty slots of a row, in order
FullTuple(r) ==
    LET f == <<r.PType, r.V0, r.V1, r.V2, r.V3, r.V4, r.V5>>
    IN  SelectSeq(f, LAMBDA x : x # "")

\* C5: a successful UpdateFilteredPolicies leaves the table equal to the rows
\* the filter did not select plus the records of the new rules, and returns,
\* one per selected row, the rule type and non-empty slots of that row.
C5_UpdateFilteredReplaces ==
    (last.op = "UpdateFilteredPolicies" /\ last.res = "ok") =>
        /\ table = PreNotSelected (+) RowsOf(last.ptype, last.newRules)
        /\ \E rows \in Scans(PreSelected) :
              last.out = [i \in DOMAIN rows |-> FullTuple(rows[i])]

C5_Witness ==
    /\ last.op = "UpdateFilteredPolicies" /\ last.res = "ok"
    /\ BagCardinality(PreSelected) = 2
    /\ PreNotSelected # EmptyBag
    /\ Len(last.newRules) = 2
    /\ \E i \in DOMAIN last.values : last.values[i] # ""

\* C6: an UpdateFilteredPolicies whose select, delete or insert fails leaves
\* the table as before the call (the selected rows are still there and no
\* replacement row is) and returns an error with no tuples.
C6_UpdateFilteredRollsBack ==
    (/\ last.op = "UpdateFilteredPolicies"
     /\ last.res = "err"
     /\ last.fault \in 0..3)
        => (table = last.pre /\ last.out = <<>>)

\* a replacement rule duplicates a row that the filter did not select
C6_Witness ==
    /\ last.op = "UpdateFilteredPolicies" /\ last.res = "err" /\ last.fault = 0
    /\ PreSelected # EmptyBag
    /\ \E i \in DOMAIN last.newRules :
          BagIn(RowOf(last.ptype, last.newRules[i]), PreNotSelected)
    /\ \E i \in DOMAIN last.newRules :
          ~BagIn(RowOf(last.ptype, last.newRules[i]), last.pre)

\* C7: a successful RemoveFilteredPolicy deletes exactly the rows of rule type
\* ptype whose covered slots hold the non-empty field values; an empty field
\* value and a slot outside the covered range constrain nothing, and every
\* other row stays.
C7_RemoveFilteredExact ==
    (last.op = "RemoveFilteredPolicy" /\ last.res = "ok")
        => table = PreNotSelected

C7_Witness ==
    /\ last.op = "RemoveFilteredPolicy" /\ last.res = "ok"
    /\ last.fieldIndex = 1 /\ last.values = <<"a">>
    /\ PreSelected # EmptyBag
    /\ \E r \in BagToSet(table) : r.PType = last.ptype

-----------------------------------------------------------------------------
(* Properties of the codec (CodecSpec) *)

\* C8 as stated: decoding the filter values of the record of a tuple of at
\* most six strings gives the tuple back.
C8_RoundTripAnyTuple ==
    (codec.step = "decoded" /\ Len(codec.rule) <= 6)
        => codec.values = codec.rule

\* C8: decoding the filter values of the record of a tuple of at most six
\* non-empty strings gives the tuple back: same elements, order and length.
C8_RoundTripNonEmpty ==
    (/\ codec.step = "decoded"
     /\ Len(codec.rule) <= 6
     /\ \A i \in DOMAIN codec.rule : codec.rule[i] # "")
        => codec.values = codec.rule

C8_Witness ==
    /\ codec.step = "decoded"
    /\ Len(codec.rule) = 6
    /\ \A i \in DOMAIN codec.rule : codec.rule[i] # ""
    /\ codec.rule[1] # codec.rule[6]

\* C9: the record of a rule type and a tuple has that rule type, holds the
\* tuple's i-th element in slot i for i < min(6, length) and the empty string
\* in every other slot; elements from index 6 on are dropped.
C9_EncodePositional ==
    codec.step \in {"encoded", "decoded"} =>
        /\ codec.policy.PType = codec.ptype
        /\ \A i \in 0..5 :
              <<codec.policy.V0, codec.policy.V1, codec.policy.V2,
                codec.policy.V3, codec.policy.V4, codec.policy.V5>>[i + 1]
                 = IF i < Len(codec.rule) THEN codec.rule[i + 1] ELSE ""

C9_Witness ==
    /\ codec.step = "encoded"
    /\ Len(codec.rule) = 7
    /\ codec.rule[7] # ""
    /\ codec.policy.V5 = codec.rule[6] /\ codec.rule[6] # ""

-----------------------------------------------------------------------------
(* Properties of loading *)

\* the filter values of the rows of rule type ptype in the table
Decoded(ptype) ==
    {SelectSeq(<<r.V0, r.V1, r.V2, r.V3, r.V4, r.V5>>, LAMBDA x : x # "") :
        r \in {x \in BagToSet(table) : x.PType = ptype}}

Elems(s) == {s[i] : i \in DOMAIN s}

\* C10: a LoadPolicy that succeeds adds the filter values of each row under
\* the section given by the first character of its rule type, once, and only
\* when the model does not hold that tuple already; loading the same table
\* once more leaves the model as the first load left it.
C10_LoadIdempotent ==
    (last.op = "LoadPolicy" /\ last.res = "ok") =>
        /\ \A x \in {<<"p", "p2">>, <<"g", "g">>} :
              LET before == last.model[x[1]][x[2]].Policy
                  after  == last.outModel[x[1]][x[2]].Policy
                  new    == {d \in Decoded(x[2]) : d \notin Elems(before)}
              IN  /\ SubSeq(after, 1, Len(before)) = before
                  /\ Len(after) = Len(before) + Cardinality(new)
                  /\ Elems(after) = Elems(before) \cup new
        /\ last.again => last.outModel = last.model

\* a second load of a table with two rows that decode to the same tuple
C10_Witness ==
    /\ last.op = "LoadPolicy" /\ last.res = "ok" /\ last.again
    /\ \E r1, r2 \in BagToSet(table) :
          /\ r1 # r2 /\ r1.PType = r2.PType
          /\ Decoded(r1.PType) = {<<"a">>}
    /\ \E r \in BagToSet(table) : r.PType = "p2"

-----------------------------------------------------------------------------
(* Properties of bootstrap, single remove and update, and a failing save *)

AllCreated == [table |-> TRUE, uniqueIdx |-> TRUE, ptypeIdx |-> TRUE]

\* C11: NewAdapter without DisableAutoCreateTable on a database whose table
\* and indexes exist returns without error and leaves schema and rows unchanged.
C11_BootstrapIdempotent ==
    (last.op = "NewAdapter" /\ ~last.notCreateTables)
        => (last.res = "ok" /\ schema = AllCreated /\ table = last.pre)

\* row r has rule type ptype and holds every non-empty element of the first
\* six of rule in the slot of its position
KeyMatch(r, ptype, rule) ==
    /\ r.PType = ptype
    /\ \A i \in 0..5 :
          (i < Len(rule) /\ rule[i + 1] # "")
             => <<r.V0, r.V1, r.V2, r.V3, r.V4, r.V5>>[i + 1] = rule[i + 1]

\* the rows of the table before the call that the first rule of the call keys
PreKeyed ==
    Keep(last.pre, {r \in BagToSet(last.pre) : KeyMatch(r, last.ptype, last.rules[1])})

PreNotKeyed ==
    Keep(last.pre, {r \in BagToSet(last.pre) : ~KeyMatch(r, last.ptype, last.rules[1])})

\* C12: a successful RemovePolicy deletes exactly the rows of its rule type
\* that agree with the tuple on every slot the tuple fills with a non-empty
\* value, rows that extend the tuple included; every other row stays.
C12_RemovePartialKey ==
    (last.op = "RemovePolicy" /\ last.res = "ok") => table = PreNotKeyed

\* the tuple <<"a">> removes its own row and the row of its extension
C12_Witness ==
    /\ last.op = "RemovePolicy" /\ last.res = "ok"
    /\ last.rules[1] = <<"a">>
    /\ BagCardinality(PreKeyed) = 2
    /\ table # EmptyBag

\* C13: a successful UpdatePolicy gives every row keyed by the old tuple the
\* record of the new tuple (slots past its length empty), leaves every other
\* row unchanged and does not change the number of rows.
C13_UpdateRewrites ==
    (last.op = "UpdatePolicy" /\ last.res = "ok") =>
        /\ table = PreNotKeyed
                     (+) SeqToBag([i \in 1..BagCardinality(PreKeyed) |->
                                      RowOf(last.ptype, last.newRules[1])])
        /\ BagCardinality(table) = BagCardinality(last.pre)

\* a row with two filled slots becomes the record of a one-element tuple
C13_Witness ==
    /\ last.op = "UpdatePolicy" /\ last.res = "ok"
    /\ last.rules[1] = <<"a", "b">> /\ last.newRules[1] = <<"a">>
    /\ PreKeyed # EmptyBag
    /\ PreNotKeyed # EmptyBag
    /\ table # last.pre

\* the committed rows after the whole call has taken effect on conc.begin
FullEffects ==
    LET outs ==
          CASE conc.op = "RemovePolicies" ->
                 RemovePoliciesCtx(schema, conc.begin, conc.ptype, conc.rules, 0)
            [] conc.op = "UpdatePolicies" ->
                 UpdatePoliciesCtx(schema, conc.begin, conc.ptype,
                                   conc.rules, conc.newRules, 0)
            [] conc.op = "UpdateFilteredPolicies" ->
                 UpdateFilteredPoliciesCtx(schema, conc.begin, conc.ptype,
                     conc.newRules, conc.fieldIndex, conc.values, 0)
            [] OTHER -> {}
    IN  {o.table : o \in {x \in outs : x.res = "ok"}}

\* C14: a LoadPolicy that runs while RemovePolicies, UpdatePolicies or
\* UpdateFilteredPolicies is in flight reads either the rows as they were
\* when the transaction began or the rows after the whole call has taken
\* effect, never the rows after only some of its statements.
C14_LoadSeesNoneOrAll ==
    conc.loaded => (conc.seen = conc.begin \/ conc.seen \in FullEffects)

\* a load ran after some but not all statements of a call that then committed
C14_Witness ==
    /\ conc.loaded
    /\ conc.state = "committed"
    /\ conc.seenWork \notin (FullEffects \cup {conc.begin})
    /\ conc.seen = conc.begin
    /\ table # conc.begin

\* C15: a SavePolicy whose truncate succeeds and whose insert fails returns
\* the error and leaves the table empty: the earlier rows are not restored.
C15_FailedSaveEmpties ==
    (last.op = "SavePolicy" /\ last.res = "err" /\ last.fault # 1)
        => table = EmptyBag

\* the model holds two rules with the same record
C15_Witness ==
    /\ last.op = "SavePolicy" /\ last.res = "err" /\ last.fault = 0
    /\ last.pre # EmptyBag
    /\ \E x \in {<<"p", "p2">>, <<"g", "g">>} :
          LET pol == last.model[x[1]][x[2]].Policy
          IN  Len(pol) = 2 /\ RowOf(x[2], pol[1]) = RowOf(x[2], pol[2])

=============================================================================
